---- MODULE Spec2Model ----
\* A model of driver.go of go-sql-spanner: the Driver's registry of connectors,
\* the connector's one-time client initialisation and live-connection counter,
\* and the per-connection state machine (transaction, batch, mode flags).
EXTENDS Integers, Sequences, FiniteSets, TLC

\* ------------------------------------------------------------------ bounds
MaxConnectors == 2
MaxConns == 2
MaxBatch == 2
MaxTs == 2
MaxLog == 2
MaxRetries == 1
MaxCloses == 2

\* The goroutines that call into the driver concurrently.
Procs == {"g1", "g2"}

\* ------------------------------------------------------------ descriptors
\* A dsn is its text, whether dsnRegExp finds a match in it, and the entries
\* of its PARAMSGROUP split on ";" and then on the first "=" (an entry is <<>>
\* for the empty string, <<k>> when it holds no "=", <<k, v>> otherwise).
DsnPlain ==
    [text |-> "projects/p/instances/i/databases/d", match |-> TRUE,
     entries |-> <<>>]
DsnNoRetry ==
    [text |-> "projects/p/instances/i/databases/d;usePlainText=true;retryAbortsInternally=false;",
     match |-> TRUE,
     entries |-> << <<"usePlainText", "true">>,
                    <<"retryAbortsInternally", "false">>, <<>> >>]
DsnBadParam ==
    [text |-> "projects/p/instances/i/databases/d;usePlainText", match |-> TRUE,
     entries |-> << <<"usePlainText">> >>]
DsnNoMatch ==
    [text |-> "not-a-dsn", match |-> FALSE, entries |-> <<>>]

Dsns == {DsnPlain, DsnNoRetry, DsnBadParam, DsnNoMatch}
ValidDsns == {DsnPlain, DsnNoRetry}
DsnTexts == {d.text : d \in Dsns}

\* strings.ToLower on the parameter keys in use.
ToLower(s) ==
    CASE s = "retryAbortsInternally" -> "retryabortsinternally"
      [] s = "usePlainText" -> "useplaintext"
      [] OTHER -> s

\* strconv.ParseBool: [ok, val].
ParseBool(s) ==
    CASE s \in {"1", "t", "T", "TRUE", "true", "True"} -> [ok |-> TRUE, val |-> TRUE]
      [] s \in {"0", "f", "F", "FALSE", "false", "False"} -> [ok |-> TRUE, val |-> FALSE]
      [] OTHER -> [ok |-> FALSE, val |-> FALSE]

\* extractConnectorParams: the map of the entries seen so far, or the error
\* raised by the first entry that is not key=value. Empty entries are skipped;
\* a later entry with the same key overwrites the earlier one.
RECURSIVE paramsFrom(_, _)
paramsFrom(entries, params) ==
    IF entries = <<>> THEN [err |-> "nil", params |-> params]
    ELSE LET e == Head(entries) IN
         IF e = <<>> THEN paramsFrom(Tail(entries), params)
         ELSE IF Len(e) # 2 THEN [err |-> "InvalidArgument", params |-> <<>>]
         ELSE paramsFrom(Tail(entries),
                [k \in DOMAIN params \cup {ToLower(e[1])} |->
                    IF k = ToLower(e[1]) THEN e[2] ELSE params[k]])

extractConnectorParams(entries) == paramsFrom(entries, <<>>)

\* extractConnectorConfig: match[i] is indexed without a check that the
\* regular expression matched, so a dsn without a match panics.
extractConnectorConfig(dsn) ==
    IF ~dsn.match THEN [err |-> "panic", params |-> <<>>]
    ELSE extractConnectorParams(dsn.entries)

\* The retryAbortsInternally a new connector gets from its parameters.
retryAbortsInternallyOf(params) ==
    IF "retryabortsinternally" \in DOMAIN params
    THEN LET b == ParseBool(params["retryabortsinternally"]) IN
         ~(b.ok /\ ~b.val)
    ELSE TRUE

\* --------------------------------------------------------------- variables
VARIABLES
    connectors,     \* Driver.connectors: dsn text -> connector id, 0 when absent
    connector,      \* the connector objects ever made, by id
    conns,          \* the conn objects ever returned, by id
    closedClients,  \* the client handles on which Close has been called
    retained,       \* connectors handed out by Driver.OpenConnector
    pc, local,      \* each goroutine's position and locals
    initRuns,       \* history: times the initClient function ran, per connector
    teardowns,      \* history: times Close went on to tear down, per connector
    seen,           \* history: what the opens on a connector observed
    reused,         \* history: an open found the connector initialised
    tx, batch, commitTs, retryAborts, autocommitDMLMode, readOnlyStaleness,
    closed,         \* the fields of the connection under study
    lastOp, lastErr, lastReqs,    \* its last call: the method that ran and its
                    \* argument, the error, the backend requests
    lastRes,        \* the driver.Result it returned
    lastBatch,      \* and c.batch as the call found it
    lastTs          \* the commit timestamp of the read/write transaction the
                    \* backend committed during the call, 0 when none

regVars == <<connectors, connector, conns, closedClients, retained,
             pc, local, initRuns, teardowns, seen, reused>>
connVars == <<tx, batch, commitTs, retryAborts, autocommitDMLMode,
              readOnlyStaleness, closed>>
obsVars == <<lastOp, lastErr, lastReqs, lastRes, lastBatch, lastTs>>
vars == <<regVars, connVars, obsVars>>

ConnectorIds == 1..MaxConnectors
ConnIds == 1..MaxConns

NoLocal == [k |-> 0, conn |-> 0, found |-> 0]
NilHandle == [owner |-> 0, gen |-> 0]
NilConnector ==
    [dsn |-> "", retryAbortsInternally |-> TRUE, initClient |-> FALSE,
     client |-> NilHandle, clientErr |-> FALSE,
     adminClient |-> NilHandle, adminClientErr |-> FALSE, connCount |-> 0,
     made |-> FALSE]
NilConn ==
    [connector |-> 0, client |-> NilHandle, adminClient |-> NilHandle,
     found |-> 0, closeCalls |-> 0]

\* The connection under study and the goroutine that owns it.
StudyConn == CHOOSE c \in ConnIds : \A d \in ConnIds : c <= d
Owner == CHOOSE p \in Procs : TRUE

Made == {k \in ConnectorIds : connector[k].made}
Returned == {c \in ConnIds : conns[c].connector # 0}
Open == {c \in Returned : conns[c].closeCalls = 0}

\* ------------------------------------------------------- connector registry
\* Mutant: a newConnector that does not look the dsn up in the registry.
newConnectorUnshared(dsn) ==
    IF connectors[dsn.text] # 0 /\ Cardinality(Made) >= MaxConnectors
    THEN [err |-> "nil", k |-> connectors[dsn.text],
          connectors |-> connectors, connector |-> connector]
    ELSE LET cfg == extractConnectorConfig(dsn)
             k == Cardinality(Made) + 1
         IN IF cfg.err # "nil"
            THEN [err |-> cfg.err, k |-> 0,
                  connectors |-> connectors, connector |-> connector]
            ELSE [err |-> "nil", k |-> k,
                  connectors |-> [connectors EXCEPT ![dsn.text] = k],
                  connector |-> [connector EXCEPT ![k] =
                      [NilConnector EXCEPT !.dsn = dsn.text, !.made = TRUE,
                          !.retryAbortsInternally = retryAbortsInternallyOf(cfg.params)]]]

\* newConnector, under d.mu: the registered connector of the dsn when there
\* is one, else a new connector made from the parsed dsn and registered.
\* [err, k, connectors, connector].
newConnector(dsn) ==
    IF connectors[dsn.text] # 0
    THEN [err |-> "nil", k |-> connectors[dsn.text],
          connectors |-> connectors, connector |-> connector]
    ELSE LET cfg == extractConnectorConfig(dsn)
             k == Cardinality(Made) + 1
         IN IF cfg.err # "nil"
            THEN [err |-> cfg.err, k |-> 0,
                  connectors |-> connectors, connector |-> connector]
            ELSE [err |-> "nil", k |-> k,
                  connectors |-> [connectors EXCEPT ![dsn.text] = k],
                  connector |-> [connector EXCEPT ![k] =
                      [NilConnector EXCEPT !.dsn = dsn.text, !.made = TRUE,
                          !.retryAbortsInternally = retryAbortsInternallyOf(cfg.params)]]]

\* Mutant: a Do that runs its function on every call.
initClientAlwaysRuns(k) == TRUE

\* sync.Once: whether the function given to c.initClient.Do runs in this call.
initClientRuns(k) == ~connector[k].initClient

\* c.initClient.Do(...): the function runs when it has not run before; it makes
\* the client and the admin client, each of which may fail.
initClientDo(k, clientOk, adminOk) ==
    IF ~initClientRuns(k) THEN connector
    ELSE [connector EXCEPT ![k] =
            [@ EXCEPT !.initClient = TRUE,
                      !.client = IF clientOk THEN [owner |-> k, gen |-> initRuns[k] + 1]
                                 ELSE NilHandle,
                      !.clientErr = ~clientOk,
                      !.adminClient = IF adminOk THEN [owner |-> k, gen |-> initRuns[k] + 1]
                                      ELSE NilHandle,
                      !.adminClientErr = ~adminOk]]

\* What an open observes after Do: the two handles, or the error.
observed(co) ==
    IF co.clientErr THEN <<"error", "clientErr">>
    ELSE IF co.adminClientErr THEN <<"error", "adminClientErr">>
    ELSE <<"handles", co.client, co.adminClient>>

\* The error openDriverConn returns after Do, "nil" when there is none.
openErr(co) ==
    IF co.clientErr THEN "clientErr"
    ELSE IF co.adminClientErr THEN "adminClientErr"
    ELSE "nil"

\* Driver.Open, first half: newConnector. An error (or panic) ends the call
\* there, and the call and what it ended with are recorded; otherwise the
\* call goes on to openDriverConn.
DriverOpen(p, dsn) ==
    /\ pc[p] = "idle"
    /\ connectors[dsn.text] # 0 \/ Cardinality(Made) < MaxConnectors
    /\ LET r == newConnector(dsn) IN
       /\ connectors' = r.connectors
       /\ connector' = r.connector
       /\ pc' = [pc EXCEPT ![p] = IF r.err = "nil" THEN "init" ELSE "idle"]
       /\ local' = [local EXCEPT ![p] =
                      IF r.err = "nil"
                      THEN [k |-> r.k, conn |-> 0, found |-> connectors[dsn.text]]
                      ELSE NoLocal]
       /\ IF r.err = "nil"
          THEN UNCHANGED <<lastOp, lastErr>>
          ELSE /\ lastOp' = [op |-> "Open", arg |-> dsn.text]
               /\ lastErr' = r.err
    /\ UNCHANGED <<conns, closedClients, retained, initRuns, teardowns, seen, reused>>
    /\ UNCHANGED <<connVars, lastReqs, lastRes, lastBatch, lastTs>>

\* Driver.OpenConnector: newConnector, the connector kept by the caller.
DriverOpenConnector(p, dsn) ==
    /\ pc[p] = "idle"
    /\ connectors[dsn.text] # 0 \/ Cardinality(Made) < MaxConnectors
    /\ LET r == newConnector(dsn) IN
       /\ connectors' = r.connectors
       /\ connector' = r.connector
       /\ retained' = IF r.err = "nil" THEN retained \cup {r.k} ELSE retained
    /\ UNCHANGED <<pc, local>>
    /\ UNCHANGED <<conns, closedClients, initRuns, teardowns, seen, reused>>
    /\ UNCHANGED <<connVars, obsVars>>

\* openDriverConn up to its error checks: initClient.Do, then clientErr and
\* adminClientErr. Entered from Driver.Open (pc "init") or connector.Connect.
InitAndCheck(p, k, found, clientOk, adminOk) ==
    LET co == initClientDo(k, clientOk, adminOk)[k] IN
    /\ connector' = initClientDo(k, clientOk, adminOk)
    /\ initRuns' = [initRuns EXCEPT ![k] = IF initClientRuns(k) THEN @ + 1 ELSE @]
    /\ seen' = [seen EXCEPT ![k] = @ \cup {observed(co)}]
    /\ reused' = [reused EXCEPT ![k] = @ \/ ~initClientRuns(k)]
    /\ pc' = [pc EXCEPT ![p] = IF openErr(co) = "nil" THEN "add" ELSE "idle"]
    /\ local' = [local EXCEPT ![p] =
                   IF openErr(co) = "nil" THEN [k |-> k, conn |-> 0, found |-> found]
                   ELSE NoLocal]
    /\ UNCHANGED <<connectors, conns, closedClients, retained, teardowns>>
    /\ UNCHANGED <<connVars, obsVars>>

OpenInit(p) ==
    /\ pc[p] = "init"
    /\ \E clientOk \in BOOLEAN, adminOk \in BOOLEAN :
          InitAndCheck(p, local[p].k, local[p].found, clientOk, adminOk)

\* connector.Connect on a connector that Driver.OpenConnector returned.
ConnectorConnect(p) ==
    /\ pc[p] = "idle"
    /\ \E k \in retained, clientOk \in BOOLEAN, adminOk \in BOOLEAN :
          InitAndCheck(p, k, 0, clientOk, adminOk)

\* openDriverConn, the rest: atomic.AddInt32(&c.connCount, 1) and the conn,
\* which takes the connector's handles and its retryAbortsInternally; its
\* other fields have their zero values.
OpenAdd(p) ==
    /\ pc[p] = "add"
    /\ Cardinality(Returned) < MaxConns
    /\ LET k == local[p].k
           c == Cardinality(Returned) + 1
       IN /\ connector' = [connector EXCEPT ![k].connCount = @ + 1]
          /\ conns' = [conns EXCEPT ![c] =
                [connector |-> k, client |-> connector[k].client,
                 adminClient |-> connector[k].adminClient,
                 found |-> local[p].found, closeCalls |-> 0]]
          /\ retryAborts' = IF c = StudyConn THEN connector[k].retryAbortsInternally
                            ELSE retryAborts
    /\ pc' = [pc EXCEPT ![p] = "idle"]
    /\ local' = [local EXCEPT ![p] = NoLocal]
    /\ UNCHANGED <<connectors, closedClients, retained, initRuns, teardowns, seen, reused>>
    /\ UNCHANGED <<tx, batch, commitTs, autocommitDMLMode, readOnlyStaleness, closed>>
    /\ UNCHANGED obsVars

\* conn.Close, first step: atomic.AddInt32(&c.connector.connCount, -1); the
\* call returns when the new count is positive.
lastConnection(count) == ~(count > 0)

\* conn.Close on connection c, its first step; the new count decides
\* whether the call goes on to the teardown.
connClose(p, c) ==
    /\ pc[p] = "idle"
    /\ LET k == conns[c].connector
           count == connector[k].connCount - 1
       IN /\ connector' = [connector EXCEPT ![k].connCount = count]
          /\ conns' = [conns EXCEPT ![c].closeCalls = @ + 1]
          /\ pc' = [pc EXCEPT ![p] = IF lastConnection(count) THEN "del" ELSE "idle"]
          /\ local' = [local EXCEPT ![p] =
                         IF lastConnection(count) THEN [k |-> 0, conn |-> c, found |-> 0]
                         ELSE NoLocal]
          /\ teardowns' = [teardowns EXCEPT ![k] =
                              IF lastConnection(count) THEN @ + 1 ELSE @]
    /\ UNCHANGED <<connectors, closedClients, retained, initRuns, seen, reused>>
    /\ UNCHANGED <<connVars, obsVars>>

\* conn.Close called on a connection that is open.
CloseDec(p, c) ==
    /\ c \in Open
    /\ connClose(p, c)

\* conn.Close called on a connection on which Close has been called before:
\* the same code runs again.
CloseAgain(p, c) ==
    /\ c \in Returned \ Open
    /\ conns[c].closeCalls < MaxCloses
    /\ connClose(p, c)

\* conn.Close, second step, under d.mu: delete(connectors, c.connector.dsn).
CloseDelete(p) ==
    /\ pc[p] = "del"
    /\ connectors' =
          [connectors EXCEPT ![connector[conns[local[p].conn].connector].dsn] = 0]
    /\ pc' = [pc EXCEPT ![p] = "shut"]
    /\ UNCHANGED <<local, connector, conns, closedClients, retained,
                   initRuns, teardowns, seen, reused>>
    /\ UNCHANGED <<connVars, obsVars>>

\* conn.Close, third step: c.client.Close(). No lock is held, and the call
\* to c.adminClient.Close() is yet to come.
CloseClient(p) ==
    /\ pc[p] = "shut"
    /\ closedClients' = closedClients \cup
            {<<"client", conns[local[p].conn].client>>}
    /\ pc' = [pc EXCEPT ![p] = "shutAdmin"]
    /\ UNCHANGED <<local, connectors, connector, conns, retained, initRuns,
                   teardowns, seen, reused>>
    /\ UNCHANGED <<connVars, obsVars>>

\* conn.Close, last step: c.adminClient.Close().
CloseAdminClient(p) ==
    /\ pc[p] = "shutAdmin"
    /\ closedClients' = closedClients \cup
            {<<"admin", conns[local[p].conn].adminClient>>}
    /\ pc' = [pc EXCEPT ![p] = "idle"]
    /\ local' = [local EXCEPT ![p] = NoLocal]
    /\ UNCHANGED <<connectors, connector, conns, retained, initRuns, teardowns, seen, reused>>
    /\ UNCHANGED <<connVars, obsVars>>

\* ------------------------------------------------- the connection's state
NilTx == [type |-> "nil"]
NilBatch == [tp |-> "nil"]

\* The SQL texts in use, by what isDDL and prepareSpannerStmt make of them.
DmlSqls == {"UPDATE a", "UPDATE b"}
DdlSqls == {"CREATE a", "CREATE b"}
QuerySqls == {"SELECT 1"}
BadSqls == {"UPDATE @"}
isDDL(sql) == sql \in DdlSqls
prepareFails(sql) == sql \in BadSqls

\* The texts on which parseClientSideStatement returns an error (a
\* client-side statement that lacks its value), and those on which isDDL
\* does.
ParseErrSqls == {"SET READ_ONLY_STALENESS"}
IsDDLErrSqls == {"CREATE @"}
parseClientSideStatementFails(sql) == sql \in ParseErrSqls
isDDLFails(sql) == sql \in IsDDLErrSqls

\* The client-side statements in use: those that ExecContext runs on the
\* connection and the one that QueryContext answers from the connection.
ClientExecSqls ==
    {"START BATCH DDL", "RUN BATCH",
     "SET READ_ONLY_STALENESS='EXACT_STALENESS 10s'"}
ClientQuerySqls == {"SHOW VARIABLE READ_ONLY_STALENESS"}
\* Mutant: a parser that knows no client-side statement.
isClientSideStatementNever(sql) == FALSE

\* parseClientSideStatement: whether it returns a statement for the text.
isClientSideStatement(sql) == sql \in ClientExecSqls \cup ClientQuerySqls

Modes == {"Transactional", "PartitionedNonAtomic", "Unknown"}
Bounds == {"strong", "stale"}
Timestamps == 1..MaxTs

inTransaction == tx # NilTx
inReadOnlyTransaction == tx # NilTx /\ tx.type = "ro"
inReadWriteTransaction == tx # NilTx /\ tx.type = "rw"
InDDLBatch == batch # NilBatch /\ batch.tp = "ddl"
\* Mutant: InDMLBatch that forgets the connection-level batch.
InDMLBatchNested == inReadWriteTransaction /\ tx.batch # NilBatch

InDMLBatch ==
    \/ batch # NilBatch /\ batch.tp = "dml"
    \/ inReadWriteTransaction /\ tx.batch # NilBatch
\* Mutant: inBatch that forgets the DML batch.
inBatchDDLOnly == InDDLBatch

inBatch == InDDLBatch \/ InDMLBatch

\* The model's bound on the statements of one read/write transaction: room
\* in its log for n more.
LogRoom(n) == inReadWriteTransaction => Len(tx.log) + n <= MaxLog

\* A call on the connection under study, by the goroutine that owns it.
Callable == pc[Owner] = "idle" /\ StudyConn \in Returned

\* The driver.Result values: nil, driver.ResultNoRows (which has no
\* affected-row count to give), and &result{rowsAffected: n}.
NilResult == [kind |-> "nil", rowsAffected |-> 0]
ResultNoRows == [kind |-> "ResultNoRows", rowsAffected |-> 0]
result(n) == [kind |-> "result", rowsAffected |-> n]

\* A call returns: its name and argument, its error, its backend requests
\* and its result; ts is the commit timestamp of the read/write transaction
\* that the backend committed during the call, 0 when it committed none.
ReturnCommitted(op, arg, err, reqs, res, ts) ==
    /\ lastOp' = [op |-> op, arg |-> arg]
    /\ lastErr' = err
    /\ lastReqs' = reqs
    /\ lastRes' = res
    /\ lastBatch' = batch
    /\ lastTs' = ts
    /\ UNCHANGED regVars

\* A call during which the backend committed no read/write transaction.
ReturnResult(op, arg, err, reqs, res) ==
    ReturnCommitted(op, arg, err, reqs, res, 0)

\* A call that returns no driver.Result.
Return(op, arg, err, reqs) == ReturnResult(op, arg, err, reqs, NilResult)

\* What the caller of conn.setReadOnlyStaleness, conn.startBatchDDL or
\* conn.runBatch gets of the method's driver.Result res: a client-side
\* statement (arg is its SQL text) returns it from ExecContext; the public
\* method of the connection drops it (_, err := ...) and returns the error
\* alone.
resultFor(arg, res) == IF arg \in ClientExecSqls THEN res ELSE NilResult

InitConn ==
    /\ tx = NilTx
    /\ batch = NilBatch
    /\ commitTs = 0
    /\ autocommitDMLMode = "Transactional"
    /\ readOnlyStaleness = "strong"
    /\ closed = FALSE
    /\ lastOp = [op |-> "open", arg |-> ""]
    /\ lastErr = "nil"
    /\ lastReqs = <<>>
    /\ lastRes = NilResult
    /\ lastBatch = NilBatch
    /\ lastTs = 0

\* conn.CommitTimestamp: the recorded timestamp, or FailedPrecondition when
\* there is none.
CommitTimestamp ==
    IF commitTs = 0 THEN [err |-> "FailedPrecondition", ts |-> 0]
    ELSE [err |-> "nil", ts |-> commitTs]

\* ------------------------------------------------------------ mode flags
\* Mutant: a setRetryAbortsInternally that never refuses.
retryChangeRefusedNever == FALSE

\* setRetryAbortsInternally refuses while a transaction is active.
retryChangeRefused == inTransaction

SetRetryAbortsInternally(retry) ==
    /\ Callable
    /\ IF retryChangeRefused
       THEN /\ UNCHANGED connVars
            /\ Return("SetRetryAbortsInternally", ToString(retry), "FailedPrecondition", <<>>)
       ELSE /\ retryAborts' = retry
            /\ UNCHANGED <<tx, batch, commitTs, autocommitDMLMode, readOnlyStaleness, closed>>
            /\ Return("SetRetryAbortsInternally", ToString(retry), "nil", <<>>)

SetAutocommitDMLMode(mode) ==
    /\ Callable
    /\ autocommitDMLMode' = mode
    /\ UNCHANGED <<tx, batch, commitTs, retryAborts, readOnlyStaleness, closed>>
    /\ Return("SetAutocommitDMLMode", mode, "nil", <<>>)

\* conn.setReadOnlyStaleness; arg is the argument of the call that led to
\* it, the SQL text when that is a client-side statement.
setReadOnlyStaleness(arg, staleness) ==
    /\ Callable
    /\ readOnlyStaleness' = staleness
    /\ UNCHANGED <<tx, batch, commitTs, retryAborts, autocommitDMLMode, closed>>
    /\ ReturnResult("SetReadOnlyStaleness", arg, "nil", <<>>,
                    resultFor(arg, ResultNoRows))

SetReadOnlyStaleness(staleness) == setReadOnlyStaleness(staleness, staleness)

\* ----------------------------------------------------------------- batches
\* Mutant: a StartBatchDML that a read-only transaction lets through.
txStartBatchDMLAnyTx ==
    IF tx.type = "rw" /\ tx.batch # NilBatch
    THEN [err |-> "FailedPrecondition", tx |-> tx]
    ELSE IF tx.type = "rw"
    THEN [err |-> "nil", tx |-> [tx EXCEPT !.batch = [tp |-> "dml", statements |-> <<>>]]]
    ELSE [err |-> "nil", tx |-> tx]

\* readWriteTransaction.StartBatchDML / readOnlyTransaction.StartBatchDML.
txStartBatchDML ==
    IF tx.type = "rw" /\ tx.batch = NilBatch
    THEN [err |-> "nil", tx |-> [tx EXCEPT !.batch = [tp |-> "dml", statements |-> <<>>]]]
    ELSE [err |-> "FailedPrecondition", tx |-> tx]

\* Mutant: a startBatchDDL that checks the batch alone.
startBatchDDLRefusedBatchOnly == batch # NilBatch

\* startBatchDDL refuses when a batch is open or a transaction is active.
startBatchDDLRefused == batch # NilBatch \/ inTransaction

\* startBatchDML outside a transaction refuses when a batch is open.
startBatchDMLRefused == batch # NilBatch \/ inReadOnlyTransaction

\* Mutant: a runBatch for which a missing batch is no error.
noBatchErrNil == "nil"

\* The error of runBatch when there is no transaction and no batch.
noBatchErr == "FailedPrecondition"

\* conn.startBatchDDL; arg is the SQL text when a client-side statement led
\* to it.
startBatchDDL(arg) ==
    /\ Callable
    /\ IF startBatchDDLRefused
       THEN /\ UNCHANGED connVars
            /\ Return("StartBatchDDL", arg, "FailedPrecondition", <<>>)
       ELSE /\ batch' = [tp |-> "ddl", statements |-> <<>>]
            /\ UNCHANGED <<tx, commitTs, retryAborts, autocommitDMLMode,
                           readOnlyStaleness, closed>>
            /\ ReturnResult("StartBatchDDL", arg, "nil", <<>>,
                            resultFor(arg, ResultNoRows))

StartBatchDDL == startBatchDDL("")

StartBatchDML ==
    /\ Callable
    /\ IF inTransaction
       THEN /\ tx' = txStartBatchDML.tx
            /\ UNCHANGED <<batch, commitTs, retryAborts, autocommitDMLMode,
                           readOnlyStaleness, closed>>
            /\ Return("StartBatchDML", "", txStartBatchDML.err, <<>>)
       ELSE IF startBatchDMLRefused
       THEN /\ UNCHANGED connVars
            /\ Return("StartBatchDML", "", "FailedPrecondition", <<>>)
       ELSE /\ batch' = [tp |-> "dml", statements |-> <<>>]
            /\ UNCHANGED <<tx, commitTs, retryAborts, autocommitDMLMode,
                           readOnlyStaleness, closed>>
            /\ ReturnResult("StartBatchDML", "", "nil", <<>>, ResultNoRows)

\* Mutant: an execDDL that sends one request per statement.
ddlRequestsEach(statements) ==
    [i \in 1..Len(statements) |->
        [kind |-> "UpdateDatabaseDdl", statements |-> <<statements[i]>>]]

\* conn.execDDL as runDDLBatch calls it, c.batch already nil: one
\* UpdateDatabaseDdl request with every statement, none for an empty list.
ddlRequests(statements) ==
    IF Len(statements) > 0
    THEN << [kind |-> "UpdateDatabaseDdl", statements |-> statements] >>
    ELSE <<>>

\* conn.execBatchDML outside a transaction: one read/write transaction that
\* runs one BatchUpdate, none for an empty list.
dmlBatchRequests(statements) ==
    IF Len(statements) = 0 THEN <<>>
    ELSE << [kind |-> "BatchUpdate", statements |-> statements] >>

\* Mutant: an execDDL that has a result with a count for an empty list.
ddlResultCounted(statements, ok) ==
    IF Len(statements) > 0 /\ ~ok THEN NilResult
    ELSE IF Len(statements) = 0 THEN result(0)
    ELSE ResultNoRows

\* The result of conn.execDDL as runDDLBatch calls it: nil with the error of
\* the request, else driver.ResultNoRows.
ddlResult(statements, ok) ==
    IF Len(statements) > 0 /\ ~ok THEN NilResult ELSE ResultNoRows

\* The rows one statement reports: one when it succeeds, none when it fails.
affectedRows(statements, ok) == IF ok THEN Len(statements) ELSE 0

\* The row counts that BatchUpdate returns when it ran done statements: one
\* row for each.
batchAffected(done) == [i \in 1..done |-> 1]

\* How many statements of a batch have their row counts returned. A request
\* that succeeds returns them all. BatchUpdate fails at a statement and
\* returns the counts of the statements before it. Outside a transaction
\* (committing) the commit may fail after BatchUpdate returned every count.
batchOutcomes(statements, ok, committing) ==
    IF ok \/ Len(statements) = 0 THEN {Len(statements)}
    ELSE IF committing THEN 0..Len(statements)
    ELSE 0..(Len(statements) - 1)

\* sum(affected).
RECURSIVE sum(_)
sum(affected) ==
    IF Len(affected) = 0 THEN 0 ELSE Head(affected) + sum(Tail(affected))

\* The result of conn.execBatchDML: &result{} for an empty list, else the sum
\* of the row counts that BatchUpdate returned, beside the error if any.
dmlBatchResult(statements, done) ==
    IF Len(statements) = 0 THEN result(0)
    ELSE result(sum(batchAffected(done)))

\* The commit timestamp of the read/write transaction in which
\* conn.execBatchDML runs the BatchUpdate outside a transaction; the code
\* drops it (the first value of client.ReadWriteTransaction).
dmlBatchCommitted(statements, ok, ts) ==
    IF Len(statements) > 0 /\ ok THEN ts ELSE 0

\* The statements runDDLBatch / runDMLBatch take from the batch.
batchStatements(b) == b.statements

\* What runDDLBatch / runDMLBatch leave in c.batch.
batchAfterRun(b) == NilBatch

\* readWriteTransaction.RunBatch / readOnlyTransaction.RunBatch.
txRunBatch(ok, done) ==
    IF tx.type = "rw" /\ tx.batch # NilBatch
    THEN [err |-> IF ok \/ Len(tx.batch.statements) = 0 THEN "nil" ELSE "Err",
          tx |-> [tx EXCEPT !.batch = NilBatch,
                            !.log = IF ok THEN @ \o tx.batch.statements ELSE @],
          reqs |-> IF Len(tx.batch.statements) = 0 THEN <<>>
                   ELSE << [kind |-> "TxBatchUpdate",
                            statements |-> tx.batch.statements] >>,
          res |-> dmlBatchResult(tx.batch.statements, done)]
    ELSE [err |-> "FailedPrecondition", tx |-> tx, reqs |-> <<>>,
          res |-> NilResult]

\* conn.runBatch; arg is the SQL text when a client-side statement led to
\* it.
runBatch(arg) ==
    /\ Callable
    /\ LogRoom(IF inReadWriteTransaction /\ tx.batch # NilBatch
               THEN Len(tx.batch.statements) ELSE 0)
    /\ \E ok \in BOOLEAN :
       IF inTransaction
       THEN \E done \in batchOutcomes(IF tx.type = "rw" /\ tx.batch # NilBatch
                                       THEN tx.batch.statements ELSE <<>>,
                                       ok, FALSE) :
            /\ tx' = txRunBatch(ok, done).tx
            /\ UNCHANGED <<batch, commitTs, retryAborts, autocommitDMLMode,
                           readOnlyStaleness, closed>>
            /\ ReturnResult("RunBatch", arg, txRunBatch(ok, done).err,
                            txRunBatch(ok, done).reqs,
                            resultFor(arg, txRunBatch(ok, done).res))
       ELSE IF batch = NilBatch
       THEN /\ UNCHANGED connVars
            /\ Return("RunBatch", arg, noBatchErr, <<>>)
       ELSE \E ts \in Timestamps,
                  done \in batchOutcomes(batchStatements(batch), ok, TRUE) :
            LET reqs == IF batch.tp = "ddl"
                        THEN ddlRequests(batchStatements(batch))
                        ELSE dmlBatchRequests(batchStatements(batch))
                res == IF batch.tp = "ddl"
                       THEN ddlResult(batchStatements(batch), ok)
                       ELSE dmlBatchResult(batchStatements(batch), done)
            IN /\ batch' = batchAfterRun(batch)
               /\ UNCHANGED <<tx, commitTs, retryAborts, autocommitDMLMode,
                              readOnlyStaleness, closed>>
               /\ ReturnCommitted("RunBatch", arg,
                     IF ok \/ reqs = <<>> THEN "nil" ELSE "Err", reqs,
                     resultFor(arg, res),
                     IF batch.tp = "dml" THEN dmlBatchCommitted(batchStatements(batch), ok, ts)
                     ELSE 0)

RunBatch == runBatch("")

\* Mutant: an abortBatch that keeps the batch.
batchAfterAbortKept == batch

\* What conn.abortBatch leaves in c.batch outside a transaction.
batchAfterAbort == NilBatch

\* readWriteTransaction.AbortBatch drops the nested batch; what
\* readOnlyTransaction.AbortBatch returns is left open.
AbortBatch ==
    /\ Callable
    /\ IF inTransaction
       THEN IF tx.type = "rw"
            THEN /\ tx' = [tx EXCEPT !.batch = NilBatch]
                 /\ UNCHANGED <<batch, commitTs, retryAborts, autocommitDMLMode,
                                readOnlyStaleness, closed>>
                 /\ Return("AbortBatch", "", "nil", <<>>)
            ELSE /\ UNCHANGED connVars
                 /\ \E err \in {"nil", "FailedPrecondition"} :
                       Return("AbortBatch", "", err, <<>>)
       ELSE /\ batch' = batchAfterAbort
            /\ UNCHANGED <<tx, commitTs, retryAborts, autocommitDMLMode,
                           readOnlyStaleness, closed>>
            /\ ReturnResult("AbortBatch", "", "nil", <<>>, ResultNoRows)

\* ------------------------------------------------------- query and exec
\* Mutant: an execDDL whose refusal discards the open DML batch.
execDDLRefusalDropsBatch(sql, ok) ==
    IF batch # NilBatch /\ batch.tp = "dml"
    THEN [err |-> "FailedPrecondition", batch |-> NilBatch, reqs |-> <<>>,
          res |-> NilResult]
    ELSE IF batch # NilBatch /\ batch.tp = "ddl"
    THEN [err |-> "nil",
          batch |-> [batch EXCEPT !.statements = Append(@, sql)],
          reqs |-> <<>>, res |-> ResultNoRows]
    ELSE [err |-> IF ok THEN "nil" ELSE "Err", batch |-> batch,
          reqs |-> ddlRequests(<<sql>>), res |-> ddlResult(<<sql>>, ok)]

\* Mutant: an execDDL that sends the statement whatever batch is open.
execDDLAlwaysSends(sql, ok) ==
    [err |-> IF ok THEN "nil" ELSE "Err", batch |-> batch,
     reqs |-> ddlRequests(<<sql>>), res |-> ddlResult(<<sql>>, ok)]

\* conn.execDDL for one statement, called from ExecContext.
execDDL(sql, ok) ==
    IF batch # NilBatch /\ batch.tp = "dml"
    THEN [err |-> "FailedPrecondition", batch |-> batch, reqs |-> <<>>,
          res |-> NilResult]
    ELSE IF batch # NilBatch /\ batch.tp = "ddl"
    THEN [err |-> "nil",
          batch |-> [batch EXCEPT !.statements = Append(@, sql)],
          reqs |-> <<>>, res |-> ResultNoRows]
    ELSE [err |-> IF ok THEN "nil" ELSE "Err", batch |-> batch,
          reqs |-> ddlRequests(<<sql>>), res |-> ddlResult(<<sql>>, ok)]

\* readWriteTransaction.ExecContext / readOnlyTransaction.ExecContext: a
\* statement joins the nested batch when one is open, else it is run in the
\* transaction; a read-only transaction refuses it.
txExecContext(sql, ok) ==
    IF tx.type = "ro"
    THEN [err |-> "FailedPrecondition", tx |-> tx, reqs |-> <<>>, rows |-> 0]
    ELSE IF tx.batch # NilBatch
    THEN [err |-> "nil", tx |-> [tx EXCEPT !.batch.statements = Append(@, sql)],
          reqs |-> <<>>, rows |-> 0]
    ELSE [err |-> IF ok THEN "nil" ELSE "Err",
          tx |-> [tx EXCEPT !.log = IF ok THEN Append(@, sql) ELSE @],
          reqs |-> << [kind |-> "TxUpdate", statement |-> sql] >>,
          rows |-> affectedRows(<<sql>>, ok)]

\* Mutant: a DML batch that takes a new statement at its front.
dmlBatchPrepend(sql) == [batch EXCEPT !.statements = <<sql>> \o @]

\* c.batch.statements = append(c.batch.statements, ss) in ExecContext.
dmlBatchAppend(sql) == [batch EXCEPT !.statements = Append(@, sql)]

\* What ExecContext returns after the statement was dealt with: nil with
\* the error, else &result{rowsAffected}.
execResult(err, rowsAffected) ==
    IF err # "nil" THEN NilResult ELSE result(rowsAffected)

\* The model's bound on the length of a batch.
BatchRoom ==
    /\ batch # NilBatch => Len(batch.statements) < MaxBatch
    /\ (inReadWriteTransaction /\ tx.batch # NilBatch) =>
           Len(tx.batch.statements) < MaxBatch

\* What the statement that parseClientSideStatement returns does in
\* ExecContext: it calls the method of the connection that it names, and
\* the call is recorded as a call of that method with the SQL text.
clientSideStatementExec(sql) ==
    CASE sql = "START BATCH DDL" -> startBatchDDL(sql)
      [] sql = "RUN BATCH" -> runBatch(sql)
      [] OTHER -> setReadOnlyStaleness(sql, "stale")

\* conn.ExecContext: an error of parseClientSideStatement ends the call
\* with nothing done; a client-side statement is run and nothing else is
\* done; for any other statement the commit timestamp is cleared first, and
\* an error of isDDL ends the call there.
ExecContext(sql) ==
    IF parseClientSideStatementFails(sql)
    THEN /\ Callable
         /\ UNCHANGED connVars
         /\ Return("ExecContext", sql, "ParseErr", <<>>)
    ELSE IF isClientSideStatement(sql) THEN clientSideStatementExec(sql) ELSE
    /\ Callable
    /\ BatchRoom
    /\ LogRoom(1)
    /\ \E ok \in BOOLEAN :
       IF isDDLFails(sql)
       THEN /\ commitTs' = 0
            /\ UNCHANGED <<tx, batch, retryAborts, autocommitDMLMode,
                           readOnlyStaleness, closed>>
            /\ Return("ExecContext", sql, "IsDDLErr", <<>>)
       ELSE IF isDDL(sql)
       THEN IF inTransaction
            THEN /\ commitTs' = 0
                 /\ UNCHANGED <<tx, batch, retryAborts, autocommitDMLMode,
                                readOnlyStaleness, closed>>
                 /\ Return("ExecContext", sql, "FailedPrecondition", <<>>)
            ELSE /\ commitTs' = 0
                 /\ batch' = execDDL(sql, ok).batch
                 /\ UNCHANGED <<tx, retryAborts, autocommitDMLMode,
                                readOnlyStaleness, closed>>
                 /\ ReturnResult("ExecContext", sql, execDDL(sql, ok).err,
                                 execDDL(sql, ok).reqs, execDDL(sql, ok).res)
       ELSE IF prepareFails(sql)
       THEN /\ commitTs' = 0
            /\ UNCHANGED <<tx, batch, retryAborts, autocommitDMLMode,
                           readOnlyStaleness, closed>>
            /\ Return("ExecContext", sql, "InvalidArgument", <<>>)
       ELSE IF tx = NilTx
       THEN IF InDMLBatch
            THEN /\ commitTs' = 0
                 /\ batch' = dmlBatchAppend(sql)
                 /\ UNCHANGED <<tx, retryAborts, autocommitDMLMode,
                                readOnlyStaleness, closed>>
                 /\ ReturnResult("ExecContext", sql, "nil", <<>>, execResult("nil", 0))
            ELSE IF autocommitDMLMode = "Transactional"
            THEN \E ts \in Timestamps :
                 /\ commitTs' = IF ok THEN ts ELSE 0
                 /\ UNCHANGED <<tx, batch, retryAborts, autocommitDMLMode,
                                readOnlyStaleness, closed>>
                 /\ ReturnCommitted("ExecContext", sql, IF ok THEN "nil" ELSE "Err",
                       << [kind |-> "Update", statement |-> sql] >>,
                       execResult(IF ok THEN "nil" ELSE "Err", affectedRows(<<sql>>, ok)),
                       IF ok THEN ts ELSE 0)
            ELSE IF autocommitDMLMode = "PartitionedNonAtomic"
            THEN /\ commitTs' = 0
                 /\ UNCHANGED <<tx, batch, retryAborts, autocommitDMLMode,
                                readOnlyStaleness, closed>>
                 /\ ReturnResult("ExecContext", sql, IF ok THEN "nil" ELSE "Err",
                       << [kind |-> "PartitionedUpdate", statement |-> sql] >>,
                       execResult(IF ok THEN "nil" ELSE "Err", affectedRows(<<sql>>, ok)))
            ELSE /\ commitTs' = 0
                 /\ UNCHANGED <<tx, batch, retryAborts, autocommitDMLMode,
                                readOnlyStaleness, closed>>
                 /\ Return("ExecContext", sql, "FailedPrecondition", <<>>)
       ELSE /\ commitTs' = 0
            /\ tx' = txExecContext(sql, ok).tx
            /\ UNCHANGED <<batch, retryAborts, autocommitDMLMode,
                           readOnlyStaleness, closed>>
            /\ ReturnResult("ExecContext", sql, txExecContext(sql, ok).err,
                            txExecContext(sql, ok).reqs,
                            execResult(txExecContext(sql, ok).err,
                                       txExecContext(sql, ok).rows))

\* Mutant: a read-only transaction that reads at the connection's current
\* staleness.
queryRequestsLiveBound(sql) ==
    IF tx = NilTx
    THEN << [kind |-> "Query", statement |-> sql, bound |-> readOnlyStaleness] >>
    ELSE IF tx.type = "ro"
    THEN << [kind |-> "TxQuery", statement |-> sql, bound |-> readOnlyStaleness] >>
    ELSE << [kind |-> "TxQuery", statement |-> sql, bound |-> "strong"] >>

\* The backend request of a query: a single-use read at the connection's
\* staleness outside a transaction, else the transaction's own read.
queryRequests(sql) ==
    IF tx = NilTx
    THEN << [kind |-> "Query", statement |-> sql, bound |-> readOnlyStaleness] >>
    ELSE IF tx.type = "ro"
    THEN << [kind |-> "TxQuery", statement |-> sql, bound |-> tx.bound] >>
    ELSE << [kind |-> "TxQuery", statement |-> sql, bound |-> "strong"] >>

\* readWriteTransaction.Query / readOnlyTransaction.Query: the transaction
\* after the query; a read/write transaction keeps the statement in its log.
txQuery(sql) ==
    IF tx # NilTx /\ tx.type = "rw" THEN [tx EXCEPT !.log = Append(@, sql)]
    ELSE tx

\* What the statement that parseClientSideStatement returns does in
\* QueryContext: it answers from the connection's settings.
clientSideStatementQuery(sql) ==
    /\ Callable
    /\ UNCHANGED connVars
    /\ Return("QueryContext", sql, "nil", <<>>)

\* conn.QueryContext: an error of parseClientSideStatement ends the call
\* with nothing done; a client-side statement is run and nothing else is
\* done; for any other statement the commit timestamp is cleared first.
QueryContext(sql) ==
    IF parseClientSideStatementFails(sql)
    THEN /\ Callable
         /\ UNCHANGED connVars
         /\ Return("QueryContext", sql, "ParseErr", <<>>)
    ELSE IF isClientSideStatement(sql) THEN clientSideStatementQuery(sql) ELSE
    /\ Callable
    /\ LogRoom(1)
    /\ commitTs' = 0
    /\ UNCHANGED <<batch, retryAborts, autocommitDMLMode, readOnlyStaleness, closed>>
    /\ IF prepareFails(sql)
       THEN /\ UNCHANGED tx
            /\ Return("QueryContext", sql, "InvalidArgument", <<>>)
       ELSE /\ tx' = txQuery(sql)
            /\ Return("QueryContext", sql, "nil", queryRequests(sql))

\* conn.Ping: QueryContext("SELECT 1") unless c.closed, then one row that
\* must hold 1.
Ping ==
    /\ Callable
    /\ IF closed
       THEN /\ UNCHANGED connVars
            /\ Return("Ping", "", "BadConn", <<>>)
       ELSE /\ LogRoom(1)
            /\ commitTs' = 0
            /\ tx' = txQuery("SELECT 1")
            /\ UNCHANGED <<batch, retryAborts, autocommitDMLMode,
                           readOnlyStaleness, closed>>
            /\ \E row \in {"1", "other", "error"} :
                  Return("Ping", "", IF row = "1" THEN "nil" ELSE "BadConn",
                         queryRequests("SELECT 1"))

\* ------------------------------------------------------------- mutations
Apply ==
    /\ Callable
    /\ UNCHANGED connVars
    /\ IF inTransaction
       THEN Return("Apply", "", "FailedPrecondition", <<>>)
       ELSE \E ok \in BOOLEAN, ts \in Timestamps :
               ReturnCommitted("Apply", "", IF ok THEN "nil" ELSE "Err",
                               << [kind |-> "Apply"] >>, NilResult,
                               IF ok THEN ts ELSE 0)

\* readWriteTransaction.BufferWrite buffers in the transaction;
\* readOnlyTransaction.BufferWrite refuses.
BufferWrite ==
    /\ Callable
    /\ UNCHANGED connVars
    /\ IF ~inTransaction \/ tx.type = "ro"
       THEN Return("BufferWrite", "", "FailedPrecondition", <<>>)
       ELSE Return("BufferWrite", "", "nil", << [kind |-> "TxBufferWrite"] >>)

\* ---------------------------------------------------------- transactions
\* The close function BeginTx gives a readOnlyTransaction.
roClose == [tx |-> NilTx, commitTs |-> commitTs]

\* The close function BeginTx gives a readWriteTransaction.
rwClose(ts, commitErr) ==
    [tx |-> NilTx, commitTs |-> IF commitErr = "nil" THEN ts ELSE commitTs]

BeginTx(readOnly) ==
    /\ Callable
    /\ IF inTransaction \/ inBatch
       THEN /\ UNCHANGED connVars
            /\ Return("BeginTx", ToString(readOnly), "FailedPrecondition", <<>>)
       ELSE IF readOnly
       THEN /\ tx' = [type |-> "ro", bound |-> readOnlyStaleness]
            /\ UNCHANGED <<batch, commitTs, retryAborts, autocommitDMLMode,
                           readOnlyStaleness, closed>>
            /\ Return("BeginTx", ToString(readOnly), "nil", <<>>)
       ELSE \E ok \in BOOLEAN :
            IF ~ok
            THEN /\ UNCHANGED connVars
                 /\ Return("BeginTx", ToString(readOnly), "Err",
                           << [kind |-> "BeginReadWrite"] >>)
            ELSE /\ tx' = [type |-> "rw", retryAborts |-> retryAborts,
                           batch |-> NilBatch, log |-> <<>>]
                 /\ commitTs' = 0
                 /\ UNCHANGED <<batch, retryAborts, autocommitDMLMode,
                                readOnlyStaleness, closed>>
                 /\ Return("BeginTx", ToString(readOnly), "nil",
                           << [kind |-> "BeginReadWrite"] >>)

\* How a commit that the backend does not abort can end.
CommitErrs == {"nil", "Err"}

\* The backend's part in one commit: the number of commit attempts in a row
\* that it aborts (aborts), the replay in which a statement's result differs
\* from the original one (differsAt, 0 for none), how the attempt that is not
\* aborted ends (final), and the timestamp of a commit that succeeds.
CommitFates ==
    [aborts : 0..(MaxRetries + 1), differsAt : 0..MaxRetries,
     final : CommitErrs, ts : Timestamps]

\* Mutant: a replay whose differing results are not noticed.
replayErrIgnored(same) == "nil"

\* The outcome of one replay of the log on a fresh transaction: the
\* distinguished error when a replayed statement's result is not the same as
\* its original result.
replayErr(same) ==
    IF same THEN "nil" ELSE "AbortedDueToConcurrentModification"

\* The request that stands for one replay of the log, with what the
\* comparison of the replayed results with the original ones gave.
replayRequest(log, same) ==
    [kind |-> "Replay", statements |-> log, same |-> same]

RECURSIVE commitAttempts(_, _, _)
\* Mutant: a commit that surfaces the first Abort whatever the retry flag.
commitAttemptsNoRetry(fate, n, reqs) ==
    LET sent == Append(reqs, [kind |-> "Commit"]) IN
    IF fate.aborts <= n
    THEN [err |-> fate.final,
          ts |-> IF fate.final = "nil" THEN fate.ts ELSE 0, reqs |-> sent]
    ELSE [err |-> "Aborted", ts |-> 0, reqs |-> sent]

\* readWriteTransaction.Commit with the abort-retry protocol, n commit
\* attempts having been aborted and replayed already: the commit is sent;
\* when the backend aborts it and retry is on and the cap on attempts is not
\* reached, the log is replayed in order on a fresh transaction, and either
\* a replayed result differs (the distinguished error) or the commit is
\* tried again; with retry off, or at the cap, the Abort is returned.
commitAttempts(fate, n, reqs) ==
    LET sent == Append(reqs, [kind |-> "Commit"]) IN
    IF fate.aborts <= n
    THEN [err |-> fate.final,
          ts |-> IF fate.final = "nil" THEN fate.ts ELSE 0, reqs |-> sent]
    ELSE IF ~tx.retryAborts \/ n >= MaxRetries
    THEN [err |-> "Aborted", ts |-> 0, reqs |-> sent]
    ELSE LET same == fate.differsAt # n + 1
             replayed == Append(sent, replayRequest(tx.log, same))
         IN IF replayErr(same) # "nil"
            THEN [err |-> replayErr(same), ts |-> 0, reqs |-> replayed]
            ELSE commitAttempts(fate, n + 1, replayed)

\* Mutant: a transaction that calls its close function only when it ended
\* without an error.
closeCalledOnSuccess(err) == err = "nil"

\* Whether Commit and Rollback of a transaction call the close function that
\* BeginTx gave it, err being the error they end with: whatever the outcome.
closeCalled(err) == TRUE

\* What is left on the connection when the close function was not called.
notClosed == [tx |-> tx, commitTs |-> commitTs]

\* Tx.Commit: a read-only transaction just closes; a read/write transaction
\* commits on the backend, retrying as the protocol says, and hands the
\* timestamp and the error to close.
Commit ==
    /\ Callable
    /\ inTransaction
    /\ IF tx.type = "ro"
       THEN LET cl == IF closeCalled("nil") THEN roClose ELSE notClosed IN
            /\ tx' = cl.tx
            /\ commitTs' = cl.commitTs
            /\ Return("Commit", "", "nil", <<>>)
       ELSE \E fate \in CommitFates :
            LET r == commitAttempts(fate, 0, <<>>)
                cl == IF closeCalled(r.err) THEN rwClose(r.ts, r.err)
                      ELSE notClosed
            IN /\ tx' = cl.tx
               /\ commitTs' = cl.commitTs
               /\ ReturnCommitted("Commit", "", r.err, r.reqs, NilResult, r.ts)
    /\ UNCHANGED <<batch, retryAborts, autocommitDMLMode, readOnlyStaleness, closed>>

\* What Tx.Rollback does to the connection and the backend; its error is err.
rollback(err) ==
    LET cl == IF ~closeCalled(err) THEN notClosed
              ELSE IF tx.type = "ro" THEN roClose
              ELSE rwClose(0, "nil")
    IN [tx |-> cl.tx, commitTs |-> cl.commitTs,
        reqs |-> IF tx.type = "ro" THEN <<>> ELSE << [kind |-> "Rollback"] >>]

\* The errors a rollback can end with.
RollbackErrs == IF tx # NilTx /\ tx.type = "rw" THEN {"nil", "Err"} ELSE {"nil"}

Rollback ==
    /\ Callable
    /\ inTransaction
    /\ \E err \in RollbackErrs :
          /\ tx' = rollback(err).tx
          /\ commitTs' = rollback(err).commitTs
          /\ Return("Rollback", "", err, rollback(err).reqs)
    /\ UNCHANGED <<batch, retryAborts, autocommitDMLMode, readOnlyStaleness, closed>>

\* Mutant: a reset that leaves the autocommit DML mode and the staleness.
resetFieldsKeepModes ==
    [commitTs |-> 0, batch |-> NilBatch, retryAborts |-> TRUE,
     autocommitDMLMode |-> autocommitDMLMode,
     readOnlyStaleness |-> readOnlyStaleness]

\* The values conn.ResetSession assigns after the rollback: c.commitTs = nil,
\* c.batch = nil, c.retryAborts = true, Transactional, TimestampBound{}.
resetFields ==
    [commitTs |-> 0, batch |-> NilBatch, retryAborts |-> TRUE,
     autocommitDMLMode |-> "Transactional", readOnlyStaleness |-> "strong"]

\* conn.ResetSession.
ResetSession ==
    /\ Callable
    /\ IF closed
       THEN /\ UNCHANGED connVars
            /\ Return("ResetSession", "", "BadConn", <<>>)
       ELSE IF inTransaction
       THEN \E err \in RollbackErrs :
            IF err # "nil"
            THEN /\ tx' = rollback(err).tx
                 /\ commitTs' = rollback(err).commitTs
                 /\ UNCHANGED <<batch, retryAborts, autocommitDMLMode,
                                readOnlyStaleness, closed>>
                 /\ Return("ResetSession", "", "BadConn", rollback(err).reqs)
            ELSE /\ tx' = rollback(err).tx
                 /\ commitTs' = resetFields.commitTs
                 /\ batch' = resetFields.batch
                 /\ retryAborts' = resetFields.retryAborts
                 /\ autocommitDMLMode' = resetFields.autocommitDMLMode
                 /\ readOnlyStaleness' = resetFields.readOnlyStaleness
                 /\ UNCHANGED closed
                 /\ Return("ResetSession", "", "nil", rollback(err).reqs)
       ELSE /\ tx' = tx
            /\ commitTs' = resetFields.commitTs
            /\ batch' = resetFields.batch
            /\ retryAborts' = resetFields.retryAborts
            /\ autocommitDMLMode' = resetFields.autocommitDMLMode
            /\ readOnlyStaleness' = resetFields.readOnlyStaleness
            /\ UNCHANGED closed
            /\ Return("ResetSession", "", "nil", <<>>)

\* ---------------------------------------------- one connection in use
\* The state after Driver.Open(dsn) returned the first connection.
InitOpened ==
    \E dsn \in ValidDsns :
    LET k == StudyConn
        co == [NilConnector EXCEPT
                 !.dsn = dsn.text, !.made = TRUE, !.initClient = TRUE,
                 !.retryAbortsInternally =
                     retryAbortsInternallyOf(extractConnectorConfig(dsn).params),
                 !.client = [owner |-> k, gen |-> 1],
                 !.adminClient = [owner |-> k, gen |-> 1],
                 !.connCount = 1]
    IN /\ connectors = [d \in DsnTexts |-> IF d = dsn.text THEN k ELSE 0]
       /\ connector = [j \in ConnectorIds |-> IF j = k THEN co ELSE NilConnector]
       /\ conns = [c \in ConnIds |->
                     IF c = StudyConn
                     THEN [connector |-> k, client |-> co.client,
                           adminClient |-> co.adminClient, found |-> 0,
                           closeCalls |-> 0]
                     ELSE NilConn]
       /\ closedClients = {}
       /\ retained = {}
       /\ pc = [p \in Procs |-> "idle"]
       /\ local = [p \in Procs |-> NoLocal]
       /\ initRuns = [j \in ConnectorIds |-> IF j = k THEN 1 ELSE 0]
       /\ teardowns = [j \in ConnectorIds |-> 0]
       /\ seen = [j \in ConnectorIds |->
                     IF j = k THEN {observed(co)} ELSE {}]
       /\ reused = [j \in ConnectorIds |-> FALSE]
       /\ retryAborts = co.retryAbortsInternally
       /\ InitConn

Next ==
    \/ \E retry \in BOOLEAN : SetRetryAbortsInternally(retry)
    \/ \E mode \in Modes : SetAutocommitDMLMode(mode)
    \/ \E staleness \in Bounds : SetReadOnlyStaleness(staleness)
    \/ StartBatchDDL
    \/ StartBatchDML
    \/ RunBatch
    \/ AbortBatch
    \/ \E sql \in DmlSqls \cup DdlSqls \cup BadSqls \cup ClientExecSqls
                  \cup ParseErrSqls \cup IsDDLErrSqls :
          ExecContext(sql)
    \/ \E sql \in QuerySqls \cup BadSqls \cup ClientQuerySqls \cup ParseErrSqls :
          QueryContext(sql)
    \/ Ping
    \/ Apply
    \/ BufferWrite
    \/ \E readOnly \in BOOLEAN : BeginTx(readOnly)
    \/ Commit
    \/ Rollback
    \/ ResetSession
    \/ CloseDec(Owner, StudyConn)
    \/ CloseDelete(Owner)
    \/ CloseClient(Owner)
    \/ CloseAdminClient(Owner)

Spec == InitOpened /\ [][Next]_vars

\* ---------------------------------------------------- the registry alone
InitReg ==
    /\ connectors = [d \in DsnTexts |-> 0]
    /\ connector = [k \in ConnectorIds |-> NilConnector]
    /\ conns = [c \in ConnIds |-> NilConn]
    /\ closedClients = {}
    /\ retained = {}
    /\ pc = [p \in Procs |-> "idle"]
    /\ local = [p \in Procs |-> NoLocal]
    /\ initRuns = [k \in ConnectorIds |-> 0]
    /\ teardowns = [k \in ConnectorIds |-> 0]
    /\ seen = [k \in ConnectorIds |-> {}]
    /\ reused = [k \in ConnectorIds |-> FALSE]
    /\ retryAborts = TRUE
    /\ InitConn

NextReg ==
    \/ \E p \in Procs, dsn \in Dsns : DriverOpen(p, dsn)
    \/ \E p \in Procs, dsn \in ValidDsns : DriverOpenConnector(p, dsn)
    \/ \E p \in Procs : OpenInit(p)
    \/ \E p \in Procs : ConnectorConnect(p)
    \/ \E p \in Procs : OpenAdd(p)
    \/ \E p \in Procs, c \in ConnIds : CloseDec(p, c)
    \/ \E p \in Procs : CloseDelete(p)
    \/ \E p \in Procs : CloseClient(p)
    \/ \E p \in Procs : CloseAdminClient(p)

SpecReg == InitReg /\ [][NextReg]_vars

\* ------------------------------------- one caller, Close called again
\* One goroutine opens and closes connections one call after the other, and
\* may call Close on a connection that it has closed already.
NextClose ==
    \/ \E dsn \in ValidDsns : DriverOpen(Owner, dsn)
    \/ OpenInit(Owner)
    \/ OpenAdd(Owner)
    \/ \E c \in ConnIds : CloseDec(Owner, c)
    \/ \E c \in ConnIds : CloseAgain(Owner, c)
    \/ CloseDelete(Owner)
    \/ CloseClient(Owner)
    \/ CloseAdminClient(Owner)

SpecClose == InitReg /\ [][NextClose]_vars

\* ------------------------------------------------------------------ claims
\* A step of the connection's owner that is a call on the connection: the
\* registry steps always change regVars, the calls never do.
CallStep(op) == UNCHANGED regVars /\ lastOp'.op = op

\* C1: at most one transaction, read-only or read/write, is active on the
\* connection, and while a transaction is active the connection has no
\* connection-level batch (so a DDL batch never coexists with a transaction).
C1_TxExcludesBatch ==
    /\ ~(inReadOnlyTransaction /\ inReadWriteTransaction)
    /\ inTransaction => (batch = NilBatch /\ ~InDDLBatch)
    /\ batch # NilBatch => tx = NilTx

\* C1 witness: a transaction is active and a StartBatchDDL was just refused.
C1_Witness ==
    /\ inReadWriteTransaction
    /\ lastOp.op = "StartBatchDDL"
    /\ lastErr = "FailedPrecondition"

\* C2: the registered connector of a dsn is a connector made for that dsn; a
\* connection opened with a dsn whose connector was registered has that
\* connector; the connections of one connector hold the connector's one
\* client and admin client; and the live-connection count of a connector is
\* the number of its connections that are returned and not closed (0, 1, 2,
\* 1, 0 across open, open, close, close).
C2_SharedConnector ==
    /\ \A d \in DsnTexts : connectors[d] # 0 =>
          (connectors[d] \in Made /\ connector[connectors[d]].dsn = d)
    /\ \A c \in Returned :
          /\ conns[c].found # 0 => conns[c].connector = conns[c].found
          /\ conns[c].client = connector[conns[c].connector].client
          /\ conns[c].adminClient = connector[conns[c].connector].adminClient
    /\ \A k \in Made :
          connector[k].connCount =
             Cardinality({c \in Open : conns[c].connector = k})

\* C2 witness: two connections opened on one connector, the second through
\* the registry, and both closed again: the count is back at 0.
C2_Witness ==
    \E a \in Returned, b \in Returned :
       /\ a # b
       /\ conns[b].found = conns[a].connector
       /\ conns[a].connector = conns[b].connector
       /\ conns[a].client = conns[b].client
       /\ a \notin Open /\ b \notin Open
       /\ connector[conns[a].connector].connCount = 0

\* C3 (as claimed): the teardown of a connector (its clients closed, the
\* connector removed from the registry) happens once per connector and never
\* while a connection of that connector is open.
C3_TeardownOnce ==
    /\ \A k \in Made : teardowns[k] <= 1
    /\ \A c \in Open : <<"client", conns[c].client>> \notin closedClients

\* C4: the function of initClient runs at most once per connector, however
\* many opens there are and whether or not it failed; every open on the
\* connector observes the same handles or the same error; and a connector
\* whose initialisation failed has no connection and a count of 0.
C4_InitOnce ==
    \A k \in ConnectorIds :
       /\ initRuns[k] <= 1
       /\ connector[k].initClient <=> initRuns[k] = 1
       /\ Cardinality(seen[k]) <= 1
       /\ (connector[k].clientErr \/ connector[k].adminClientErr) =>
             /\ connector[k].connCount = 0
             /\ \A c \in Returned : conns[c].connector # k

\* C4 witness: a connector whose initialisation failed was opened again,
\* and every open on it observed that one error.
C4_Witness ==
    \E k \in Made :
       /\ connector[k].clientErr
       /\ reused[k]
       /\ seen[k] = {<<"error", "clientErr">>}
       /\ \A p \in Procs : pc[p] = "idle"

\* The calls C5 names: ping, resetSession, query, exec, begin, the batch calls.
C5_Calls ==
    {"Ping", "ResetSession", "QueryContext", "ExecContext", "BeginTx",
     "StartBatchDDL", "StartBatchDML", "RunBatch", "AbortBatch"}

\* C5 (as claimed): once Close has been called on the connection, every call
\* on it reports the bad-connection sentinel and makes no backend request.
C5_ClosedIsBadConn ==
    [][(conns[StudyConn].closeCalls > 0 /\ \E op \in C5_Calls : CallStep(op)) =>
          (lastErr' = "BadConn" /\ lastReqs' = <<>>)]_vars

\* C6: after Commit or Rollback, whatever its outcome, no transaction is
\* active and no batch is open, so BeginTx is not refused.
C6_CommitRollbackToIdle ==
    lastOp.op \in {"Commit", "Rollback"} => (~inTransaction /\ ~inBatch)

\* C6 witness: the commit of a read/write transaction failed, and the
\* connection is idle.
C6_Witness ==
    /\ lastOp.op = "Commit"
    /\ lastErr = "Aborted"
    /\ lastReqs # <<>>
    /\ tx = NilTx

\* C7: BeginTx is refused with FailedPrecondition whenever a transaction is
\* active or a connection-level batch is open, and then changes nothing on
\* the connection; a BeginTx whose backend transaction cannot be made leaves
\* the connection without a transaction.
C7_BeginTxRefused ==
    [][CallStep("BeginTx") =>
          /\ (inTransaction \/ batch # NilBatch) =>
                (lastErr' = "FailedPrecondition" /\ UNCHANGED connVars)
          /\ lastErr' = "FailedPrecondition" => UNCHANGED connVars
          /\ lastErr' = "Err" => (tx' = NilTx /\ UNCHANGED connVars)]_vars

\* C7 witness: BeginTx was refused while a DML batch with statements is open.
C7_Witness ==
    /\ lastOp.op = "BeginTx"
    /\ lastErr = "FailedPrecondition"
    /\ batch # NilBatch
    /\ batch.tp = "dml"
    /\ Len(batch.statements) > 0

\* C8: StartBatchDDL while a batch is open or a transaction is active, and
\* StartBatchDML outside a transaction while a batch is open, are refused with
\* FailedPrecondition and change nothing on the connection.
C8_StartBatchRefused ==
    [][/\ (CallStep("StartBatchDDL") /\ (batch # NilBatch \/ inTransaction)) =>
             (lastErr' = "FailedPrecondition" /\ UNCHANGED connVars)
       /\ (CallStep("StartBatchDML") /\ ~inTransaction /\ batch # NilBatch) =>
             (lastErr' = "FailedPrecondition" /\ UNCHANGED connVars)]_vars

\* C8 witness: StartBatchDDL was refused inside a read-only transaction.
C8_Witness ==
    /\ lastOp.op = "StartBatchDDL"
    /\ lastErr = "FailedPrecondition"
    /\ inReadOnlyTransaction

\* The one request RunBatch is claimed to send for the batch b.
C9_OneRequest(b) ==
    << [kind |-> IF b.tp = "ddl" THEN "UpdateDatabaseDdl" ELSE "BatchUpdate",
        statements |-> b.statements] >>

\* A batch starts empty, outside a transaction every statement that exec
\* accepts without sending it goes to the end of the batch, and nothing else
\* changes the statements of an open batch.
C9_AppendOrder ==
    /\ (\E op \in {"StartBatchDDL", "StartBatchDML"} : CallStep(op)
          /\ tx = NilTx /\ lastErr' = "nil") =>
             (batch' # NilBatch /\ batch'.statements = <<>>)
    /\ (CallStep("ExecContext") /\ tx = NilTx /\ batch # NilBatch
          /\ lastErr' = "nil" /\ lastReqs' = <<>>) =>
             batch' = [batch EXCEPT !.statements = Append(@, lastOp'.arg)]
    /\ (tx = NilTx /\ batch # NilBatch /\ batch' # NilBatch) =>
          \/ batch' = batch
          \/ /\ CallStep("ExecContext")
             /\ batch' = [batch EXCEPT !.statements = Append(@, lastOp'.arg)]

\* C9 (as claimed): outside a transaction RunBatch on an open batch sends its
\* statements, in order, as one request, and leaves no batch.
C9_RunBatchOneRequest ==
    [][(CallStep("RunBatch") /\ tx = NilTx /\ batch # NilBatch) =>
          (lastReqs' = C9_OneRequest(batch) /\ batch' = NilBatch)]_vars

\* C9 (amended): outside a transaction RunBatch on an open batch that holds
\* at least one statement sends exactly the statements appended since the
\* batch was started, in their order, as one request; on an empty batch it
\* sends nothing; either way, and whether or not the request succeeds, the
\* connection has no batch afterwards.
C9_RunBatchSubmits ==
    [][/\ C9_AppendOrder
       /\ (CallStep("RunBatch") /\ tx = NilTx /\ batch # NilBatch) =>
             /\ batch' = NilBatch
             /\ lastReqs' = IF Len(batch.statements) > 0
                            THEN C9_OneRequest(batch) ELSE <<>>]_vars

\* C9 witness: RunBatch failed after sending one request with two DDL
\* statements, in the order they were appended, and no batch is left.
C9_Witness ==
    /\ lastOp.op = "RunBatch"
    /\ lastErr = "Err"
    /\ lastReqs = << [kind |-> "UpdateDatabaseDdl",
                      statements |-> <<"CREATE b", "CREATE a">>] >>
    /\ batch = NilBatch
    /\ tx = NilTx

\* C10: RunBatch with no transaction active and no batch open fails with
\* FailedPrecondition, sends nothing and changes nothing on the connection.
C10_RunBatchNoBatch ==
    [][(CallStep("RunBatch") /\ tx = NilTx /\ batch = NilBatch) =>
          /\ lastErr' = "FailedPrecondition"
          /\ lastReqs' = <<>>
          /\ UNCHANGED connVars]_vars

\* C10 witness: RunBatch was refused on a connection with no transaction and
\* no batch.
C10_Witness ==
    /\ lastOp.op = "RunBatch"
    /\ lastErr = "FailedPrecondition"
    /\ tx = NilTx
    /\ batch = NilBatch

\* C11 (as claimed): RunBatch on an open batch with no statements, DML or
\* DDL, sends no request, succeeds and leaves no batch, and the result it
\* gives its caller, when it gives one, has an affected-row count of 0.
C11_EmptyBatchCountZero ==
    [][(CallStep("RunBatch") /\ tx = NilTx /\ batch # NilBatch
          /\ batch.statements = <<>>) =>
             /\ lastReqs' = <<>>
             /\ lastErr' = "nil"
             /\ lastRes' \in {result(0), NilResult}
             /\ batch' = NilBatch]_vars

\* C11 (amended): RunBatch on an open batch with no statements sends no
\* request, succeeds and leaves no batch; the RunBatch method returns the
\* error alone, and the result that the RUN BATCH statement returns has an
\* affected-row count of 0 for a DML batch and is the no-rows result, which
\* has no affected-row count, for a DDL batch.
C11_EmptyBatchNoRequest ==
    [][(CallStep("RunBatch") /\ tx = NilTx /\ batch # NilBatch
          /\ batch.statements = <<>>) =>
             /\ lastReqs' = <<>>
             /\ lastErr' = "nil"
             /\ lastRes' = IF lastOp'.arg # "RUN BATCH" THEN NilResult
                           ELSE IF batch.tp = "dml" THEN result(0)
                           ELSE ResultNoRows
             /\ batch' = NilBatch]_vars

\* C11 witness: the RUN BATCH statement found an empty DML batch, sent
\* nothing and returned a count of 0.
C11_Witness ==
    /\ lastOp = [op |-> "RunBatch", arg |-> "RUN BATCH"]
    /\ lastBatch = [tp |-> "dml", statements |-> <<>>]
    /\ tx = NilTx
    /\ lastErr = "nil"
    /\ lastReqs = <<>>
    /\ lastRes = result(0)
    /\ batch = NilBatch

\* C12: outside a transaction AbortBatch discards the open batch without
\* sending anything and succeeds, also when no batch is open, changing
\* nothing else; a batch opened afterwards starts with no statements, and
\* RunBatch sends no statements but those of the batch it finds, so no
\* statement of an aborted batch is sent later.
C12_AbortDiscards ==
    [][/\ (CallStep("AbortBatch") /\ tx = NilTx) =>
             /\ batch' = NilBatch
             /\ lastErr' = "nil"
             /\ lastReqs' = <<>>
             /\ UNCHANGED <<tx, commitTs, retryAborts, autocommitDMLMode,
                            readOnlyStaleness, closed>>
       /\ (tx = NilTx /\ batch = NilBatch /\ batch' # NilBatch) =>
             batch'.statements = <<>>
       /\ (CallStep("RunBatch") /\ tx = NilTx /\ batch # NilBatch) =>
             \A i \in DOMAIN lastReqs' :
                lastReqs'[i].statements = batch.statements]_vars

\* C12 witness: AbortBatch found a DDL batch holding two statements and left
\* no batch, having sent nothing.
C12_Witness ==
    /\ lastOp.op = "AbortBatch"
    /\ lastBatch # NilBatch
    /\ lastBatch.tp = "ddl"
    /\ Len(lastBatch.statements) = 2
    /\ tx = NilTx
    /\ batch = NilBatch
    /\ lastErr = "nil"
    /\ lastReqs = <<>>

\* C13: with a connection-level DML batch open and no transaction, exec of a
\* DML statement sends nothing, puts the statement at the end of the batch,
\* succeeds and leaves no commit timestamp; no exec sends anything while the
\* DML batch is open, and a combined update is sent by RunBatch alone.
C13_ExecJoinsDmlBatch ==
    [][/\ (CallStep("ExecContext") /\ tx = NilTx /\ batch # NilBatch
           /\ batch.tp = "dml") =>
             /\ lastReqs' = <<>>
             /\ lastOp'.arg \in DmlSqls =>
                   /\ batch' = [batch EXCEPT !.statements = Append(@, lastOp'.arg)]
                   /\ lastErr' = "nil"
                   /\ lastRes' = result(0)
                   /\ commitTs' = 0
                   /\ UNCHANGED <<tx, retryAborts, autocommitDMLMode,
                                  readOnlyStaleness, closed>>
       /\ (UNCHANGED regVars /\ \E i \in DOMAIN lastReqs' :
               lastReqs'[i].kind = "BatchUpdate") =>
             CallStep("RunBatch")]_vars

\* C13 witness: exec of a second DML statement found a DML batch holding one
\* statement and left it holding both, in order, with nothing sent.
C13_Witness ==
    /\ lastOp = [op |-> "ExecContext", arg |-> "UPDATE a"]
    /\ lastBatch = [tp |-> "dml", statements |-> <<"UPDATE b">>]
    /\ batch = [tp |-> "dml", statements |-> <<"UPDATE b", "UPDATE a">>]
    /\ tx = NilTx
    /\ lastErr = "nil"
    /\ lastReqs = <<>>
    /\ commitTs = 0

\* C14: exec of a DDL statement is refused with FailedPrecondition, sending
\* nothing, when a transaction is active or a DML batch is open; with a DDL
\* batch open it goes to the end of the batch and nothing is sent; otherwise
\* it is sent at once as one schema-update request. A schema-update request
\* is sent only with no transaction active, and the connection has no batch
\* when it is sent (RunBatch clears the batch before it sends).
C14_ExecDDL ==
    [][/\ (CallStep("ExecContext") /\ lastOp'.arg \in DdlSqls) =>
             IF inTransaction \/ (batch # NilBatch /\ batch.tp = "dml")
             THEN /\ lastErr' = "FailedPrecondition"
                  /\ lastReqs' = <<>>
                  /\ UNCHANGED <<tx, batch>>
             ELSE IF batch # NilBatch
             THEN /\ lastErr' = "nil"
                  /\ lastReqs' = <<>>
                  /\ batch' = [batch EXCEPT !.statements = Append(@, lastOp'.arg)]
             ELSE /\ lastReqs' = << [kind |-> "UpdateDatabaseDdl",
                                     statements |-> <<lastOp'.arg>>] >>
                  /\ UNCHANGED <<tx, batch>>
       /\ (UNCHANGED regVars /\ \E i \in DOMAIN lastReqs' :
               lastReqs'[i].kind = "UpdateDatabaseDdl") =>
             /\ tx = NilTx /\ tx' = NilTx
             /\ batch' = NilBatch
             /\ (batch # NilBatch => CallStep("RunBatch") /\ batch.tp = "ddl")]_vars

\* C14 witness: exec of a DDL statement was refused because a DML batch
\* holding a statement is open, and the batch is as it was.
C14_Witness ==
    /\ lastOp = [op |-> "ExecContext", arg |-> "CREATE a"]
    /\ lastErr = "FailedPrecondition"
    /\ lastReqs = <<>>
    /\ tx = NilTx
    /\ batch = [tp |-> "dml", statements |-> <<"UPDATE a">>]
    /\ lastBatch = batch

\* C15: StartBatchDML while a read-only transaction is active fails with
\* FailedPrecondition, changes nothing on the connection and leaves it with
\* neither a connection-level batch nor a nested batch (InDMLBatch is false).
C15_StartBatchDMLReadOnly ==
    [][(CallStep("StartBatchDML") /\ inReadOnlyTransaction) =>
          /\ lastErr' = "FailedPrecondition"
          /\ lastReqs' = <<>>
          /\ UNCHANGED connVars
          /\ batch' = NilBatch
          /\ ~InDMLBatch'
          /\ ~inBatch']_vars

\* C15 witness: StartBatchDML was refused inside a read-only transaction.
C15_Witness ==
    /\ lastOp.op = "StartBatchDML"
    /\ lastErr = "FailedPrecondition"
    /\ inReadOnlyTransaction
    /\ batch = NilBatch
    /\ ~InDMLBatch

\* C16: SetRetryAbortsInternally while a transaction is active fails with
\* FailedPrecondition and changes nothing; and in every state in which a
\* read/write transaction is active, the retry setting the transaction took
\* at BeginTx equals the connection's retry flag.
C16_RetryFixedInTx ==
    [][/\ (CallStep("SetRetryAbortsInternally") /\ inTransaction) =>
             /\ lastErr' = "FailedPrecondition"
             /\ UNCHANGED connVars
       /\ inReadWriteTransaction' => tx'.retryAborts = retryAborts']_vars

\* C16 witness: inside a read/write transaction begun with retry on, a call
\* to switch retry off was refused and both settings are still on.
C16_Witness ==
    /\ lastOp = [op |-> "SetRetryAbortsInternally", arg |-> "FALSE"]
    /\ lastErr = "FailedPrecondition"
    /\ inReadWriteTransaction
    /\ tx.retryAborts = TRUE
    /\ retryAborts = TRUE

\* C17 (as claimed): CommitTimestamp returns the commit timestamp of the
\* last read/write transaction, implicit or explicit, that committed on the
\* connection, and an error exactly when none has committed: it is an error
\* on a new connection, a call during which a read/write transaction
\* committed makes it return that timestamp, and any other call leaves what
\* it returns.
C17_CommitTimestampIsLast ==
    /\ CommitTimestamp.err # "nil"
    /\ [][UNCHANGED regVars =>
             /\ lastTs' # 0 => CommitTimestamp' = [err |-> "nil", ts |-> lastTs']
             /\ lastTs' = 0 => CommitTimestamp' = CommitTimestamp]_vars

\* C18: ResetSession on an open connection returns nil or the bad-connection
\* sentinel; with no transaction active it sends nothing and returns nil;
\* with a transaction active it rolls it back, and returns the sentinel only
\* when the rollback failed; whenever it returns nil the connection has no
\* transaction, no batch, no commit timestamp, retry on, the Transactional
\* mode and the default (strong) staleness.
C18_ResetSession ==
    [][(CallStep("ResetSession") /\ ~closed) =>
          /\ lastErr' \in {"nil", "BadConn"}
          /\ ~inTransaction => (lastErr' = "nil" /\ lastReqs' = <<>>)
          /\ inReadWriteTransaction => lastReqs' = << [kind |-> "Rollback"] >>
          /\ inTransaction => tx' = NilTx
          /\ lastErr' = "nil" =>
                /\ tx' = NilTx
                /\ batch' = NilBatch
                /\ commitTs' = 0
                /\ retryAborts' = TRUE
                /\ autocommitDMLMode' = "Transactional"
                /\ readOnlyStaleness' = "strong"]_vars

\* C18 witness: ResetSession rolled a read/write transaction back and left
\* the connection with every setting at its default.
C18_Witness ==
    /\ lastOp.op = "ResetSession"
    /\ lastErr = "nil"
    /\ lastReqs = << [kind |-> "Rollback"] >>
    /\ tx = NilTx
    /\ batch = NilBatch
    /\ commitTs = 0
    /\ retryAborts = TRUE
    /\ autocommitDMLMode = "Transactional"
    /\ readOnlyStaleness = "strong"

\* C19 (as claimed): on a connection opened from a dsn that carries
\* retryAbortsInternally=false the retry flag starts off, nothing but a
\* SetRetryAbortsInternally(true) of the application turns it on, and every
\* read/write transaction begun while it is off runs with retry off.
C19_DsnNoRetryKept ==
    /\ ~connector[conns[StudyConn].connector].retryAbortsInternally =>
           retryAborts = FALSE
    /\ [][~connector[conns[StudyConn].connector].retryAbortsInternally =>
             /\ (retryAborts = FALSE /\ retryAborts' = TRUE) =>
                   /\ CallStep("SetRetryAbortsInternally")
                   /\ lastOp'.arg = "TRUE"
             /\ (CallStep("BeginTx") /\ inReadWriteTransaction'
                    /\ retryAborts = FALSE) =>
                   tx'.retryAborts = FALSE]_vars

\* The number of commit requests among the requests of a call.
C20_Commits(reqs) == Cardinality({i \in DOMAIN reqs : reqs[i].kind = "Commit"})

\* The requests of a commit that was aborted n times and replayed after
\* each Abort: commit, replay of the log, commit, ... , commit.
C20_Retried(log, n) ==
    [i \in 1..(2 * n + 1) |->
        IF i % 2 = 1 THEN [kind |-> "Commit"]
        ELSE replayRequest(log, TRUE)]

\* C20: the commit of a read/write transaction begun with retry on sends,
\* after each aborted commit, a replay of the statements of the transaction
\* in their original order and then the commit again; it returns Aborted only
\* when the cap on attempts is reached, and when the last commit succeeds it
\* returns nil and the connection records the commit timestamp. The commit
\* of a transaction begun with retry off sends one commit and no replay, and
\* returns the Abort of that commit.
C20_CommitRetry ==
    [][(CallStep("Commit") /\ inReadWriteTransaction) =>
          /\ tx' = NilTx
          /\ lastErr' = "nil" =>
                (commitTs' # 0 /\ commitTs' = lastTs')
          /\ lastErr' # "nil" => (commitTs' = commitTs /\ lastTs' = 0)
          /\ tx.retryAborts =>
                /\ lastErr' # "AbortedDueToConcurrentModification" =>
                      \E n \in 0..MaxRetries : lastReqs' = C20_Retried(tx.log, n)
                /\ lastErr' = "Aborted" => C20_Commits(lastReqs') = MaxRetries + 1
          /\ ~tx.retryAborts =>
                /\ lastReqs' = << [kind |-> "Commit"] >>
                /\ lastErr' \in CommitErrs \cup {"Aborted"}]_vars

\* C20 witness: a commit was aborted once, the two statements of the
\* transaction were replayed in order, the second commit succeeded and its
\* timestamp is recorded.
C20_Witness ==
    /\ lastOp.op = "Commit"
    /\ lastErr = "nil"
    /\ lastReqs = << [kind |-> "Commit"],
                     replayRequest(<<"UPDATE b", "UPDATE a">>, TRUE),
                     [kind |-> "Commit"] >>
    /\ tx = NilTx
    /\ commitTs # 0
    /\ commitTs = lastTs

\* C21: whenever, in the commit of a read/write transaction, a replay finds
\* a statement whose result differs from its original result, the call
\* returns the aborted-due-to-concurrent-modification error, that replay is
\* the last request of the call (no further commit or replay is sent), the
\* transaction is over and no commit timestamp is recorded; this does not
\* depend on the connection's retry flag, and the error is returned in no
\* other case.
C21_ReplayDiffers ==
    [][(CallStep("Commit") /\ inReadWriteTransaction) =>
          /\ \A i \in DOMAIN lastReqs' :
                (lastReqs'[i].kind = "Replay" /\ ~lastReqs'[i].same) =>
                   /\ i = Len(lastReqs')
                   /\ lastErr' = "AbortedDueToConcurrentModification"
                   /\ tx' = NilTx
                   /\ commitTs' = commitTs
                   /\ lastTs' = 0
          /\ lastErr' = "AbortedDueToConcurrentModification" =>
                /\ lastReqs' # <<>>
                /\ lastReqs'[Len(lastReqs')].kind = "Replay"
                /\ ~lastReqs'[Len(lastReqs')].same]_vars

\* C21 witness: a commit was aborted, the replay of the transaction's two
\* statements found a differing result, and the call ended there with the
\* distinguished error.
C21_Witness ==
    /\ lastOp.op = "Commit"
    /\ lastErr = "AbortedDueToConcurrentModification"
    /\ lastReqs = << [kind |-> "Commit"],
                     replayRequest(<<"UPDATE a", "SELECT 1">>, FALSE) >>
    /\ tx = NilTx
    /\ lastTs = 0

\* C22 (as claimed): a call that returns FailedPrecondition leaves the whole
\* state of the connection as it was: the transaction, the batch and its
\* statements, the mode flags and the commit timestamp.
C22_FailedPreconditionNoChange ==
    [][(UNCHANGED regVars /\ lastErr' = "FailedPrecondition") =>
          UNCHANGED connVars]_vars

\* C22: a call that returns FailedPrecondition leaves the transaction, the
\* batch and its statements, the retry flag, the autocommit DML mode and the
\* staleness as they were; it leaves the commit timestamp as it was too,
\* unless the call is an ExecContext that ran no client-side statement,
\* which has cleared the timestamp before it refuses.
C22_FailedPreconditionKeeps ==
    [][(UNCHANGED regVars /\ lastErr' = "FailedPrecondition") =>
          /\ UNCHANGED <<tx, batch, retryAborts, autocommitDMLMode,
                         readOnlyStaleness, closed>>
          /\ lastOp'.op = "ExecContext" => commitTs' = 0
          /\ lastOp'.op # "ExecContext" => commitTs' = commitTs]_vars

\* C22 witness: ExecContext refused a DDL statement while a DML batch with
\* one statement was open; the batch and the flags are as they were set and
\* there is no commit timestamp.
C22_Witness ==
    /\ lastOp = [op |-> "ExecContext", arg |-> "CREATE a"]
    /\ lastErr = "FailedPrecondition"
    /\ lastBatch = [tp |-> "dml", statements |-> <<"UPDATE a">>]
    /\ batch = lastBatch
    /\ tx = NilTx
    /\ autocommitDMLMode = "PartitionedNonAtomic"
    /\ readOnlyStaleness = "stale"
    /\ retryAborts = FALSE
    /\ commitTs = 0

\* C23: a read-only transaction gets the staleness the connection has at
\* BeginTx and keeps it for as long as it is active: its queries read at
\* that bound; SetReadOnlyStaleness changes the connection's setting and
\* nothing else, so not the bound of the active transaction; a query outside
\* a transaction reads at the connection's setting.
C23_StalenessFrozen ==
    [][/\ (CallStep("BeginTx") /\ lastErr' = "nil" /\ inReadOnlyTransaction') =>
              tx'.bound = readOnlyStaleness
       /\ (inReadOnlyTransaction /\ inReadOnlyTransaction') =>
              tx'.bound = tx.bound
       /\ CallStep("SetReadOnlyStaleness") =>
              /\ lastOp'.arg \in Bounds => readOnlyStaleness' = lastOp'.arg
              /\ lastOp'.arg \in ClientExecSqls => readOnlyStaleness' = "stale"
              /\ UNCHANGED <<tx, batch, commitTs, retryAborts,
                             autocommitDMLMode, closed>>
       /\ (CallStep("QueryContext") /\ lastOp'.arg \in QuerySqls) =>
              /\ Len(lastReqs') = 1
              /\ inReadOnlyTransaction => lastReqs'[1].bound = tx.bound
              /\ ~inTransaction => lastReqs'[1].bound = readOnlyStaleness]_vars

\* C23 witness: a query in a read-only transaction begun at the strong bound
\* read at the strong bound although the connection's staleness has been
\* set to stale since.
C23_Witness ==
    /\ lastOp = [op |-> "QueryContext", arg |-> "SELECT 1"]
    /\ lastErr = "nil"
    /\ inReadOnlyTransaction
    /\ tx.bound = "strong"
    /\ readOnlyStaleness = "stale"
    /\ lastReqs = << [kind |-> "TxQuery", statement |-> "SELECT 1",
                       bound |-> "strong"] >>

\* C24 (as claimed): a Driver.Open with a dsn that does not match the dsn
\* format, or that has a parameter entry that is not key=value, returns
\* InvalidArgument, and it registers no connector, makes no connector and
\* creates no client.
C24_BadDsnInvalidArgument ==
    [][(lastOp' # lastOp /\ lastOp'.op = "Open"
           /\ lastOp'.arg \in {d.text : d \in Dsns \ ValidDsns}) =>
          /\ lastErr' = "InvalidArgument"
          /\ UNCHANGED <<connectors, connector, conns, closedClients,
                         retained, initRuns>>]_vars

\* C25: a QueryContext or ExecContext of a client-side statement, one that
\* runs or one that the parser fails on, leaves the commit timestamp as it
\* was; a QueryContext or ExecContext of any other
\* statement leaves no commit timestamp, unless it is an ExecContext of a DML
\* statement outside a transaction and outside a batch, in the Transactional
\* mode, that succeeded: then the timestamp is that of the commit the call
\* made.
C25_ClientSideKeepsTimestamp ==
    [][(UNCHANGED regVars
          /\ \/ lastOp'.op \in {"QueryContext", "ExecContext"}
             \/ lastOp'.arg \in ClientExecSqls) =>
          /\ lastOp'.arg \in ClientExecSqls \cup ClientQuerySqls \cup ParseErrSqls =>
                commitTs' = commitTs
          /\ (lastOp'.arg \notin ClientExecSqls \cup ClientQuerySqls \cup ParseErrSqls
                 /\ commitTs' # 0) =>
                /\ lastOp'.op = "ExecContext"
                /\ lastOp'.arg \in DmlSqls
                /\ tx = NilTx
                /\ ~InDMLBatch
                /\ autocommitDMLMode = "Transactional"
                /\ lastErr' = "nil"
                /\ lastReqs' = << [kind |-> "Update", statement |-> lastOp'.arg] >>
                /\ commitTs' = lastTs']_vars

\* C25 witness: the client-side statement RUN BATCH ran an empty DDL batch
\* through ExecContext and the commit timestamp of an earlier statement is
\* still there.
C25_Witness ==
    /\ lastOp = [op |-> "RunBatch", arg |-> "RUN BATCH"]
    /\ lastErr = "nil"
    /\ lastBatch = [tp |-> "ddl", statements |-> <<>>]
    /\ batch = NilBatch
    /\ commitTs # 0

\* C26 (as claimed): whatever the interleaving of Driver.Open,
\* connector.Connect and Close, a connection that has been returned and not
\* closed never holds a client or an admin client on which Close has been
\* called.
C26_OpenConnLiveClients ==
    \A c \in Open :
       /\ <<"client", conns[c].client>> \notin closedClients
       /\ <<"admin", conns[c].adminClient>> \notin closedClients

\* C27 (as claimed): the live-connection count of a connector is always the
\* number of its connections that were returned and not closed, and is never
\* negative; and a Close on a connection on which Close has been called
\* before leaves the count as it is and starts no teardown.
C27_CountIsOpenConns ==
    /\ [](\A k \in Made :
            /\ connector[k].connCount =
                  Cardinality({c \in Open : conns[c].connector = k})
            /\ connector[k].connCount >= 0)
    /\ [][\A c \in Returned :
            (conns[c].closeCalls >= 1
               /\ conns'[c].closeCalls = conns[c].closeCalls + 1) =>
                  /\ connector'[conns[c].connector].connCount =
                        connector[conns[c].connector].connCount
                  /\ teardowns' = teardowns
                  /\ pc' = pc]_vars

\* C28 (as claimed): a Ping on a connection that is not closed leaves the
\* connection as it was, whether it returns nil or the bad-connection
\* sentinel: the commit timestamp, the transaction with the statements it
\* would replay, the batch and the mode flags.
C28_PingChangesNothing ==
    [][(CallStep("Ping") /\ conns[StudyConn].closeCalls = 0) =>
          UNCHANGED <<tx, batch, commitTs, retryAborts, autocommitDMLMode,
                      readOnlyStaleness>>]_vars

====
